---- MODULE Spec2Model ----
(***************************************************************************)
(* Model of mpc_down_v4.py: download of ephemerides and observations from  *)
(* the Minor Planet Center, join by date, perihelion-relative date         *)
(* normalisation and magnitude reduction.                                  *)
(*                                                                         *)
(* Calendar dates are day numbers (integers); a timedelta is a difference  *)
(* of day numbers.  A file of the working directory is a record holding   *)
(* its rows, NoFile when it is absent.  Periods and wrapped day offsets    *)
(* are fixed-point numbers in units of 1/Q day.                            *)
(***************************************************************************)
EXTENDS Integers, Sequences, FiniteSets, TLC

VARIABLES
    pc,                     \* position of the program
    in_start, in_end,       \* start_date / end_date typed by the user
    start_date,             \* download_ephem_for_period: current chunk start
    difference,             \* download_ephem_for_period: days left
    n_iterations,           \* download_ephem_for_period: chunks done
    append_mode,            \* download_ephem_for_period: file mode flag
    success_down_ephem,     \* result of the ephemeris fetch
    success_down_obs,       \* result of the observation fetch
    downloaded_ephem_data,  \* file downloaded_ephem_data.txt
    downloaded_obs_data,    \* file downloaded_obs_data.txt
    requests,               \* history: the POST requests sent to mpeph2.cgi
    obs_requests,           \* history: number of GET requests to show_object
    perihelion_date_str,    \* text of the cell after 'perihelion date'
    period_str,             \* text of the cell after 'period (years)'
    perihelion_date,        \* perihelion date, or None
    period,                 \* orbital period in 1/Q days, or None
    prompts,                \* history: the questions put to the user
    combined_data,          \* file combined_data.txt
    n_obs,                  \* result of combine_data
    combine_in,             \* history: the two files combine_data read
    combine_printed,        \* history: what the last call of combine_data printed
    modified_dates,         \* file modified_dates.txt
    line_no,                \* correct_dates: number of the line being read
    delta_days,             \* correct_dates: day offset of the line, in 1/Q days
    wraps,                  \* history: wrap-loop iterations run for the line
    reduced_data,           \* file reduced_data.txt
    rm_line_no,             \* reduce_magnitudes: number of the line being read
    n_discarded_obs,        \* reduce_magnitudes: lines discarded
    n_obs_left,             \* reduce_magnitudes: lines kept
    total_observations,     \* the file of this run in 'Total observations'
    reduced_observations,   \* the file of this run in 'Reduced observations'
    pass,                   \* number of the pass over the same two files
    first_out               \* history: what the first pass produced

\* ------------------------------------------------------------------ bounds

\* Largest number of full 4001-day requests a typed interval spans.
MaxChunks == 3

\* Largest number of lines of the two files combine_data is checked on.
MaxEphLines == 2
MaxObsLines == 2

\* Largest distance in days between a line and the perihelion, largest
\* period in quarter days, and the wrap iterations followed when the period
\* is not positive.
MaxDelta == 4
MaxPeriodQ == 9
MaxWraps == 3

\* Lines of modified_dates.txt given to reduce_magnitudes.
MaxRedLines == 2

\* ------------------------------------------------------- program constants

\* Largest number of days one ephemeris request may ask for.
MAX_SPAN == 4001

\* Least number of whitespace-separated fields of no data line.
DATA_LINE_FIELDS == 13

\* --------------------------------------------------------------- helpers

\* A file of the working directory: absent, or its rows.
NoFile == [exists |-> FALSE, rows |-> <<>>]
File(rows) == [exists |-> TRUE, rows |-> rows]

\* A removal that is not made.
left_in_place(file) == file

\* "if os.path.exists(name): os.remove(name)"
remove_if_exists(file) == NoFile

Min(a, b) == IF a < b THEN a ELSE b

RECURSIVE Flatten(_)
Flatten(ss) == IF ss = <<>> THEN <<>> ELSE Head(ss) \o Flatten(Tail(ss))

\* ------------------------------------------------- the ephemeris service

\* A row of downloaded_ephem_data.txt: "year month day delta r phase".
EphRow(d, x) == [date |-> d, delta |-> x, r |-> "1.2", phase |-> "10.0"]

\* A line of the <pre> block: its number of fields and, for a data line,
\* the fields the script extracts.
HeaderLine == [nparts |-> 13, date |-> 0, delta |-> "", r |-> "", phase |-> ""]
DataLine(d, x) == [nparts |-> 14, date |-> d, delta |-> x, r |-> "1.2", phase |-> "10.0"]

\* The <pre> blocks the service may answer a request for l days from d with:
\* the sampled days (first and last shown), a block repeating a day, or a
\* block with no data line.
PreBlocks(d, l) ==
    { <<HeaderLine, DataLine(d, "1.5"), DataLine(d + l - 1, "1.5")>>,
      <<HeaderLine, DataLine(d, "1.5"), DataLine(d, "2.5")>>,
      <<HeaderLine>> }

\* The answers of mpeph2.cgi to one POST.
Responses(d, l) ==
    { [status_code |-> 500, pre |-> FALSE, lines |-> <<>>],
      [status_code |-> 200, pre |-> FALSE, lines |-> <<>>] }
    \cup { [status_code |-> 200, pre |-> TRUE, lines |-> b] : b \in PreBlocks(d, l) }

\* ------------------------------------------------------ download_ephemeris

\* The data lines of the block, reduced to the six extracted fields.
RECURSIVE extracted_data(_)
extracted_data(lines) ==
    IF lines = <<>> THEN <<>>
    ELSE LET line == Head(lines)
             rest == extracted_data(Tail(lines))
         IN IF line.nparts > DATA_LINE_FIELDS
            THEN <<[date |-> line.date, delta |-> line.delta,
                    r |-> line.r, phase |-> line.phase]>> \o rest
            ELSE rest

\* open(name, 'a' if append_mode else 'w') followed by the writes.
write_file(file, rows, mode_append) ==
    IF mode_append THEN File(file.rows \o rows) ELSE File(rows)

\* download_ephemeris on the answer resp: the value returned and the file.
download_ephemeris(resp, file, mode_append) ==
    IF resp.status_code # 200 THEN [successful_download |-> 0, file |-> file]
    ELSE IF ~resp.pre THEN [successful_download |-> 0, file |-> file]
    ELSE [successful_download |-> 1,
          file |-> write_file(file, extracted_data(resp.lines), mode_append)]

\* ----------------------------------------------- download_ephem_for_period

days_to_download(diff) == Min(diff, MAX_SPAN)

\* A loop that appends the chunk after the first one only.
append_second_chunk_only(n, mode) == n = 1

\* "if n_iterations == 1: append_mode = True"
next_append_mode(n, mode) == IF n = 1 THEN TRUE ELSE mode

\* A loop that starts the next chunk on the last day of this one.
start_on_last_day(d, days) == d + days - 1

\* start_date += timedelta(days=days_to_download)
next_start_date(d, days) == d + days

\* A loop without the break.
loop_without_break(successful_download) == "ephem_loop"

\* "if success_down_ephem == 0: break"
after_chunk(successful_download) ==
    IF successful_download = 0 THEN "ephem_return" ELSE "ephem_loop"

\* The intervals a user may type: every length around a multiple of
\* MAX_SPAN, the empty and the reversed interval included.
Spans == { k * MAX_SPAN + j : k \in 0..MaxChunks, j \in {-1, 0, 1} }

StartDates == {0, 100}

\* A file left by an earlier run of the script.
StaleFile == File(<<EphRow(-7, "9.9")>>)

\* The variables of the ephemeris fetch, and those of the observation fetch.
ephemVars == <<in_start, in_end, start_date, difference, n_iterations, append_mode,
               success_down_ephem, downloaded_ephem_data, requests>>
obsVars == <<success_down_obs, downloaded_obs_data, obs_requests,
             perihelion_date_str, period_str, perihelion_date, period, prompts>>

\* The variables of combine_data and those of correct_dates.
joinVars == <<combined_data, n_obs, combine_in, combine_printed>>
dateVars == <<modified_dates, line_no, delta_days, wraps>>

\* The variables of reduce_magnitudes and rename_and_move_files, and those
\* of a second pass over the same files.
reduceVars == <<reduced_data, rm_line_no, n_discarded_obs, n_obs_left,
                total_observations, reduced_observations>>
twiceVars == <<pass, first_out>>
restVars == <<reduceVars, twiceVars>>
laterVars == <<joinVars, dateVars, restVars>>

\* user_input, then the entry of download_ephem_for_period.
UserInput ==
    /\ pc = "input"
    /\ \E s \in StartDates, n \in Spans :
        LET e == s + n - 1
        IN /\ in_start' = s
           /\ in_end' = e
           /\ start_date' = s
           /\ difference' = (e - s) + 1
    /\ n_iterations' = 0
    /\ append_mode' = FALSE
    /\ success_down_ephem' = 0
    /\ pc' = "ephem_loop"
    /\ UNCHANGED <<downloaded_ephem_data, requests, obsVars, laterVars>>

\* A loop that is also entered with no day left.
no_day_missing(diff) == diff >= 0

\* "while difference > 0"
days_left(diff) == diff > 0

\* One iteration of the while loop, the call of download_ephemeris included.
EphemChunk ==
    /\ pc = "ephem_loop"
    /\ days_left(difference)
    /\ LET mode == next_append_mode(n_iterations, append_mode)
           days == days_to_download(difference)
       IN \E resp \in Responses(start_date, days) :
            LET res == download_ephemeris(resp, downloaded_ephem_data, mode)
            IN /\ append_mode' = mode
               /\ success_down_ephem' = res.successful_download
               /\ downloaded_ephem_data' = res.file
               /\ requests' = Append(requests,
                      [d |-> start_date, l |-> days,
                       ok |-> res.successful_download = 1,
                       rows |-> IF res.successful_download = 1
                                THEN extracted_data(resp.lines) ELSE <<>>])
               /\ pc' = after_chunk(res.successful_download)
               /\ IF res.successful_download = 0
                  THEN UNCHANGED <<start_date, difference, n_iterations>>
                  ELSE /\ start_date' = next_start_date(start_date, days)
                       /\ difference' = difference - days
                       /\ n_iterations' = n_iterations + 1
    /\ UNCHANGED <<in_start, in_end, obsVars, laterVars>>

\* The loop condition fails: return success_down_ephem.
EphemLoopExit ==
    /\ pc = "ephem_loop"
    /\ ~days_left(difference)
    /\ pc' = "ephem_return"
    /\ UNCHANGED <<ephemVars, obsVars, laterVars>>

\* A __main__ that goes on to the observations whatever was returned.
obs_regardless(success) == "obs"

\* "if success_down_ephem == 0: ... break"
after_ephem(success) == IF success = 0 THEN "aborted" ELSE "obs"

\* __main__: the test of the value download_ephem_for_period returned.
MainAfterEphem ==
    /\ pc = "ephem_return"
    /\ pc' = after_ephem(success_down_ephem)
    /\ UNCHANGED <<ephemVars, obsVars, laterVars>>


\* ---------------------------------------------------- download_observations

\* Python's None, and a value that is not None.
None == [is_none |-> TRUE, v |-> 0]
Some(x) == [is_none |-> FALSE, v |-> x]

\* Quarter days: the resolution of 365.25.
Q == 4

\* float(period_str) * 365.25, for a whole number of years, in 1/Q days.
YEAR_Q == 1461

\* A row of the observations table: the 'Date (UT)' cell (day and tenths of
\* a day) and the words of the magnitude cell.
ObsTableRow(d, tenths, words) == [date |-> d, tenths |-> tenths, magn |-> words]

\* The line "year month day magn" written for a table row: date[2].split('.')[0]
\* keeps the whole day, and the magnitude cell is copied as it is.
obs_line(row) == [date |-> row.date, parts |-> row.magn]

RECURSIVE obs_lines(_)
obs_lines(rows) ==
    IF rows = <<>> THEN <<>> ELSE <<obs_line(Head(rows))>> \o obs_lines(Tail(rows))

\* The tables show_object may hold for an interval starting at day s.
ObsTables(s) ==
    { <<>>,
      <<ObsTableRow(s, 0, <<"18.5", "V">>)>>,
      <<ObsTableRow(s, 3, <<"17.0", "U">>)>>,
      <<ObsTableRow(s, 5, <<"18.5", "V">>), ObsTableRow(s, 7, <<"17.0", "U">>),
        ObsTableRow(s + 1, 2, <<"16.0">>)>> }

\* The cell after 'perihelion date': no such cell, blank, a date followed by
\* a decimal part, or a text that split('.') or strptime rejects.
PerihelionStrs(s) ==
    { [kind |-> "notag", date |-> 0], [kind |-> "blank", date |-> 0],
      [kind |-> "text", date |-> 0], [kind |-> "date", date |-> s] }

\* The cell after 'period (years)': no such cell, blank, a number of years,
\* or a text float() rejects.
PeriodStrs ==
    { [kind |-> "notag", years |-> 0], [kind |-> "blank", years |-> 0],
      [kind |-> "text", years |-> 0], [kind |-> "years", years |-> 1] }

\* The answers of show_object to one GET.
ObsResponses(s) ==
    { [status_code |-> 500, table |-> FALSE, rows |-> <<>>,
       perihelion |-> [kind |-> "notag", date |-> 0],
       period |-> [kind |-> "notag", years |-> 0]],
      [status_code |-> 200, table |-> FALSE, rows |-> <<>>,
       perihelion |-> [kind |-> "notag", date |-> 0],
       period |-> [kind |-> "notag", years |-> 0]] }
    \cup { [status_code |-> 200, table |-> TRUE, rows |-> t, perihelion |-> a, period |-> b] :
             t \in ObsTables(s), a \in PerihelionStrs(s), b \in PeriodStrs }

\* What the user may type when asked for a perihelion date or a period (in
\* 1/Q days): a text the parser rejects, or a value.
DateAnswers(s) == { [valid |-> FALSE, v |-> 0], [valid |-> TRUE, v |-> s] }
PeriodAnswers ==
    { [valid |-> FALSE, v |-> 0], [valid |-> TRUE, v |-> 0],
      [valid |-> TRUE, v |-> YEAR_Q], [valid |-> TRUE, v |-> -YEAR_Q] }

\* new_perihelion_or_period: the value parsed from the answer, None when the
\* parser raises ValueError.
new_perihelion_or_period(answer) == IF answer.valid THEN Some(answer.v) ELSE None

\* The request, the search of the table and the writing of
\* downloaded_obs_data.txt, up to the lookup of the two metadata cells.
ObsRequest ==
    /\ pc = "obs"
    /\ obs_requests' = obs_requests + 1
    /\ \E resp \in ObsResponses(in_start) :
        IF resp.status_code # 200 \/ ~resp.table
        THEN /\ success_down_obs' = 0
             /\ perihelion_date' = None
             /\ period' = None
             /\ pc' = "obs_return"
             /\ UNCHANGED <<downloaded_obs_data, perihelion_date_str, period_str>>
        ELSE /\ downloaded_obs_data' = File(obs_lines(resp.rows))
             /\ success_down_obs' = 1
             /\ perihelion_date' = None
             /\ period' = None
             /\ perihelion_date_str' = resp.perihelion
             /\ period_str' = resp.period
             /\ pc' = IF resp.perihelion.kind = "notag" \/ resp.period.kind = "notag"
                      THEN "crashed" ELSE "epoch"
    /\ UNCHANGED <<ephemVars, prompts, laterVars>>

\* The four branches on the values found, with the questions they ask.
EpochRetrieve ==
    /\ pc = "epoch"
    /\ LET perihelion_date_found == perihelion_date_str.kind # "blank"
           period_found == period_str.kind # "blank"
       IN \E a \in DateAnswers(in_start), b \in PeriodAnswers :
            IF ~perihelion_date_found /\ ~period_found
            THEN /\ perihelion_date' = new_perihelion_or_period(a)
                 /\ period' = new_perihelion_or_period(b)
                 /\ prompts' = prompts \o <<"perihelion", "period">>
                 /\ pc' = "confirm"
            ELSE IF ~perihelion_date_found
            THEN /\ perihelion_date' = new_perihelion_or_period(a)
                 /\ prompts' = Append(prompts, "perihelion")
                 /\ IF period_str.kind = "years"
                    THEN period' = Some(period_str.years * YEAR_Q) /\ pc' = "confirm"
                    ELSE period' = period /\ pc' = "crashed"
            ELSE IF ~period_found
            THEN /\ period' = new_perihelion_or_period(b)
                 /\ prompts' = Append(prompts, "period")
                 /\ IF perihelion_date_str.kind = "date"
                    THEN perihelion_date' = Some(perihelion_date_str.date) /\ pc' = "confirm"
                    ELSE perihelion_date' = perihelion_date /\ pc' = "crashed"
            ELSE /\ prompts' = prompts
                 /\ IF perihelion_date_str.kind # "date"
                    THEN pc' = "crashed" /\ UNCHANGED <<perihelion_date, period>>
                    ELSE IF period_str.kind # "years"
                    THEN /\ perihelion_date' = Some(perihelion_date_str.date)
                         /\ period' = period
                         /\ pc' = "crashed"
                    ELSE /\ perihelion_date' = Some(perihelion_date_str.date)
                         /\ period' = Some(period_str.years * YEAR_Q)
                         /\ pc' = "confirm"
    /\ UNCHANGED <<ephemVars, success_down_obs, downloaded_obs_data, obs_requests,
                   perihelion_date_str, period_str, laterVars>>

\* A confirmation asked once for each of the two values.
one_question_per_value == <<"agree", "agree">>

\* input("Do you agree with these values? (yes/no): ")
confirm_questions == <<"agree">>

\* "Do you agree with these values?", and both questions again unless the
\* answer is yes.
EpochConfirm ==
    /\ pc = "confirm"
    /\ \E agree \in BOOLEAN, a \in DateAnswers(in_start), b \in PeriodAnswers :
        IF agree
        THEN /\ prompts' = prompts \o confirm_questions
             /\ UNCHANGED <<perihelion_date, period>>
        ELSE /\ prompts' = prompts \o confirm_questions \o <<"perihelion", "period">>
             /\ perihelion_date' = new_perihelion_or_period(a)
             /\ period' = new_perihelion_or_period(b)
    /\ pc' = "obs_return"
    /\ UNCHANGED <<ephemVars, success_down_obs, downloaded_obs_data, obs_requests,
                   perihelion_date_str, period_str, laterVars>>

\* __main__: the test of the value download_observations returned.
MainAfterObs ==
    /\ pc = "obs_return"
    /\ pc' = IF success_down_obs = 0 THEN "aborted" ELSE "combine"
    /\ UNCHANGED <<ephemVars, obsVars, laterVars>>

\* ------------------------------------------------------------ combine_data

\* Least number of fields of an observation line that is joined.
MIN_OBS_FIELDS == 5

\* The number of whitespace-separated fields of a line of
\* downloaded_obs_data.txt: year, month, day and the words of the cell.
n_fields(obs) == 3 + Len(obs.parts)

\* A test that lets a line of four fields through.
has_four_fields(obs) == n_fields(obs) >= 4

\* "if len(obs_parts) >= 5"
has_five_fields(obs) == n_fields(obs) >= MIN_OBS_FIELDS

\* A join that takes every ephemeris line, whatever its date.
any_date(eph, obs) == TRUE

\* "if eph_date == obs_date"
same_date(eph, obs) == eph.date = obs.date

\* obs_parts + eph_parts[3:6]
JoinedRow(obs, eph) ==
    [date |-> obs.date, parts |-> obs.parts,
     delta |-> eph.delta, r |-> eph.r, phase |-> eph.phase]

\* An inner loop that stops at the first ephemeris line of the date.
RECURSIVE first_match_only(_, _)
first_match_only(obs, eph_lines) ==
    IF eph_lines = <<>> THEN <<>>
    ELSE IF same_date(Head(eph_lines), obs) THEN <<JoinedRow(obs, Head(eph_lines))>>
    ELSE first_match_only(obs, Tail(eph_lines))

\* The inner loop: the lines written for one observation line.
RECURSIVE matches(_, _)
matches(obs, eph_lines) ==
    IF eph_lines = <<>> THEN <<>>
    ELSE (IF same_date(Head(eph_lines), obs)
          THEN <<JoinedRow(obs, Head(eph_lines))>> ELSE <<>>)
         \o matches(obs, Tail(eph_lines))

\* The outer loop: the lines of combined_data.txt.
RECURSIVE combine(_, _)
combine(obs_lines_read, eph_lines) ==
    IF obs_lines_read = <<>> THEN <<>>
    ELSE (IF has_five_fields(Head(obs_lines_read))
          THEN matches(Head(obs_lines_read), eph_lines) ELSE <<>>)
         \o combine(Tail(obs_lines_read), eph_lines)

\* The two print calls of combine_data: the announcement, and the count
\* after the loops.
printed_by_combine(n) ==
    <<[text |-> "Combining ephemeris and observations data", n |-> 0],
      [text |-> "total observations have been found for the defined interval", n |-> n]>>

\* combine_data: the join, the count and the removal of the two files.
CombineData ==
    /\ pc = "combine"
    /\ LET out == combine(downloaded_obs_data.rows, downloaded_ephem_data.rows)
       IN /\ combined_data' = File(out)
          /\ n_obs' = Len(out)
          /\ combine_printed' = printed_by_combine(Len(out))
    /\ combine_in' = [obs |-> downloaded_obs_data.rows, eph |-> downloaded_ephem_data.rows]
    /\ downloaded_ephem_data' = NoFile
    /\ downloaded_obs_data' = NoFile
    /\ pc' = "combined"
    /\ UNCHANGED <<in_start, in_end, start_date, difference, n_iterations, append_mode,
                   success_down_ephem, requests, success_down_obs, obs_requests,
                   perihelion_date_str, period_str, perihelion_date, period, prompts,
                   dateVars, restVars>>

\* A __main__ that goes on whatever the count.
goes_on_with_any_count(n) == TRUE

\* "if n_obs != 0"
has_observations(n) == n # 0

\* __main__: "if n_obs != 0" enters correct_dates, which opens
\* modified_dates.txt for writing; otherwise combined_data.txt is removed
\* and the loop of __main__ asks for the next object.
MainAfterCombine ==
    /\ pc = "combined"
    /\ IF has_observations(n_obs)
       THEN /\ modified_dates' = File(<<>>)
            /\ line_no' = 1
            /\ pc' = "cd_line"
            /\ UNCHANGED combined_data
       ELSE /\ combined_data' = remove_if_exists(combined_data)
            /\ pc' = "input"
            /\ UNCHANGED <<modified_dates, line_no>>
    /\ UNCHANGED <<ephemVars, obsVars, n_obs, combine_in, combine_printed, delta_days, wraps,
                   restVars>>

\* ----------------------------------------------------------- correct_dates

\* A subtraction with the operands exchanged.
perihelion_minus_date(current_date, perihelion) == (perihelion - current_date) * Q

\* (current_date - perihelion_date).days, in 1/Q days.
day_difference(current_date, perihelion) == (current_date - perihelion) * Q

\* A test against the whole period instead of half of it.
below_period(d, p) == d < -p

\* "delta_days < - period / 2"
below_interval(d, p) == 2 * d < -p

\* A test against the whole period instead of half of it.
above_period(d, p) == d > p

\* A test that also takes the upper end of the interval.
at_or_above_half(d, p) == 2 * d >= p

\* "delta_days > period / 2"
above_interval(d, p) == 2 * d > p

\* The first while loop of correct_dates on the value d, for a period p > 0.
RECURSIVE wrap_lo(_, _)
wrap_lo(d, p) == IF below_interval(d, p) THEN wrap_lo(d + p, p) ELSE d

\* The second while loop.
RECURSIVE wrap_hi(_, _)
wrap_hi(d, p) == IF above_interval(d, p) THEN wrap_hi(d - p, p) ELSE d

\* Both loops, one after the other.
wrap(d, p) == wrap_hi(wrap_lo(d, p), p)

\* round(x) of Python 3 for x in 1/Q: the nearest integer, the even one
\* when two are as near.
python_round(x) ==
    LET n == x \div Q
        rem == x % Q
    IN IF 2 * rem < Q THEN n
       ELSE IF 2 * rem > Q THEN n + 1
       ELSE IF n % 2 = 0 THEN n ELSE n + 1

\* f"{delta_days_rounded} " + parts[3:] + parts[:3]
ModifiedRow(row, rounded) ==
    [days |-> rounded, parts |-> row.parts, delta |-> row.delta, r |-> row.r,
     phase |-> row.phase, date |-> row.date]

\* The next line of combined_data.txt is read and its day difference to the
\* perihelion taken; a perihelion date of None raises TypeError.
CdReadLine ==
    /\ pc = "cd_line"
    /\ line_no <= Len(combined_data.rows)
    /\ IF perihelion_date.is_none
       THEN pc' = "crashed" /\ UNCHANGED <<delta_days, wraps>>
       ELSE /\ delta_days' = day_difference(combined_data.rows[line_no].date,
                                            perihelion_date.v)
            /\ wraps' = 0
            /\ pc' = "cd_wrap_lo"
    /\ UNCHANGED <<restVars, ephemVars, obsVars, joinVars, modified_dates, line_no>>

\* "while delta_days < - period / 2: delta_days += period"; a period of
\* None raises TypeError.  With a period that is not positive the loop is
\* followed for MaxWraps iterations.
CdWrapLo ==
    /\ pc = "cd_wrap_lo"
    /\ IF period.is_none
       THEN pc' = "crashed" /\ UNCHANGED <<delta_days, wraps>>
       ELSE IF below_interval(delta_days, period.v)
       THEN /\ period.v > 0 \/ wraps < MaxWraps
            /\ delta_days' = delta_days + period.v
            /\ wraps' = wraps + 1
            /\ pc' = "cd_wrap_lo"
       ELSE pc' = "cd_wrap_hi" /\ UNCHANGED <<delta_days, wraps>>
    /\ UNCHANGED <<restVars, ephemVars, obsVars, joinVars, modified_dates, line_no>>

\* "while delta_days > period / 2: delta_days -= period"
CdWrapHi ==
    /\ pc = "cd_wrap_hi"
    /\ IF above_interval(delta_days, period.v)
       THEN /\ period.v > 0 \/ wraps < MaxWraps
            /\ delta_days' = delta_days - period.v
            /\ wraps' = wraps + 1
            /\ pc' = "cd_wrap_hi"
       ELSE pc' = "cd_write" /\ UNCHANGED <<delta_days, wraps>>
    /\ UNCHANGED <<restVars, ephemVars, obsVars, joinVars, modified_dates, line_no>>

\* The offset is rounded and the line written to modified_dates.txt.
CdWrite ==
    /\ pc = "cd_write"
    /\ modified_dates' =
          File(Append(modified_dates.rows,
                      ModifiedRow(combined_data.rows[line_no], python_round(delta_days))))
    /\ line_no' = line_no + 1
    /\ pc' = "cd_line"
    /\ UNCHANGED <<restVars, ephemVars, obsVars, joinVars, delta_days, wraps>>

\* The last line is done: correct_dates returns.
CdReturn ==
    /\ pc = "cd_line"
    /\ line_no > Len(combined_data.rows)
    /\ pc' = "reduce"
    /\ UNCHANGED <<restVars, ephemVars, obsVars, joinVars, dateVars>>

\* ------------------------------------------------------- reduce_magnitudes

\* The fields line.split() gives are modelled as tokens of one shape: a
\* text, a number, or one of the three calendar fields of a day number.
Str(t) == [f |-> "txt", s |-> t, i |-> 0]
Num(n) == [f |-> "num", s |-> "", i |-> n]
Year(d) == [f |-> "year", s |-> "", i |-> d]
Month(d) == [f |-> "month", s |-> "", i |-> d]
Day(d) == [f |-> "day", s |-> "", i |-> d]

Strs(words) == [k \in 1..Len(words) |-> Str(words[k])]

\* line.split() of a line of combined_data.txt: the observation line
\* "year month day magn", then columns 3 to 5 of the ephemeris line.
combined_parts(row) ==
    <<Year(row.date), Month(row.date), Day(row.date)>>
        \o Strs(row.parts) \o <<Str(row.delta), Str(row.r), Str(row.phase)>>

\* line.split() of a line of modified_dates.txt: the rounded offset, then
\* parts[3:] and parts[:3] of the joined line.
modified_parts(row) ==
    <<Num(row.days)>> \o Strs(row.parts)
        \o <<Str(row.delta), Str(row.r), Str(row.phase)>>
        \o <<Year(row.date), Month(row.date), Day(row.date)>>

\* parts[k] of Python, counted from 0.
at(parts, k) == parts[k + 1]

\* discarded_filters
discarded_filters == {"U", "u", "B", "I", "J", "H", "K"}

\* A test that lets the filter U through.
not_in_upper_case_list(filter_value) == filter_value \notin {"B", "I", "J", "H", "K"}

\* "if filter_value not in discarded_filters"
not_in_discarded_filters(filter_value) == filter_value \notin discarded_filters

\* v_band_correction[...][0], in hundredths of a magnitude.  The first key
\* is the word 'blank'.
v_band_correction ==
    ("blank" :> 0) @@ ("U" :> -130) @@ ("B" :> -80) @@ ("g" :> -35) @@ ("V" :> 0)
    @@ ("r" :> 14) @@ ("R" :> 40) @@ ("C" :> 40) @@ ("W" :> 40) @@ ("i" :> 32)
    @@ ("z" :> 26) @@ ("I" :> 80) @@ ("J" :> 120) @@ ("w" :> -13) @@ ("y" :> 32)
    @@ ("L" :> 20) @@ ("H" :> 140) @@ ("K" :> 170) @@ ("Y" :> 70) @@ ("G" :> 28)
    @@ ("v" :> 0) @@ ("c" :> -5) @@ ("o" :> 33) @@ ("u" :> 250) @@ ("N" :> 0)
    @@ ("T" :> 0)

\* A lookup that gives 0 for a key the table lacks.
zero_if_unlisted(filter_value) ==
    IF filter_value \in DOMAIN v_band_correction
    THEN Some(v_band_correction[filter_value]) ELSE Some(0)

\* v_band_correction[filter_value][0]; None stands for the KeyError the
\* subscript raises for a key the table lacks.
band_correction(filter_value) ==
    IF filter_value \in DOMAIN v_band_correction
    THEN Some(v_band_correction[filter_value]) ELSE None

\* float(t) of the texts that occur, in hundredths.
float(t) ==
    CASE t = "18.5" -> 1850
      [] t = "17.0" -> 1700
      [] t = "16.0" -> 1600
      [] t = "15.0" -> 1500
      [] t = "1.5" -> 150
      [] t = "2.5" -> 250
      [] t = "1.2" -> 120
      [] t = "10.0" -> 1000

\* 5*math.log10(x) in 1/100000, for the products x (in 1/10000) that occur:
\* 5*log10(1.8) = 1.2763625..., 5*log10(3.0) = 2.3856062...
five_log10(x) ==
    CASE x = 18000 -> 127636
      [] x = 30000 -> 238561

\* round(x, 2) of Python 3 for x in 1/100000, in hundredths.
round_2(x) ==
    LET n == x \div 1000
        rem == x % 1000
    IN IF 2 * rem < 1000 THEN n
       ELSE IF 2 * rem > 1000 THEN n + 1
       ELSE IF n % 2 = 0 THEN n ELSE n + 1

\* The magnitude with the distance term added.
m_abs_plus_distance(m_observed, delta_value, r_value, correction) ==
    round_2(m_observed * 1000 + five_log10(delta_value * r_value) + correction * 1000)

\* round(m_observed - 5*math.log10(delta_value*r_value) + correction, 2)
m_abs(m_observed, delta_value, r_value, correction) ==
    round_2(m_observed * 1000 - five_log10(delta_value * r_value) + correction * 1000)

\* An output line that begins with the offset.
offset_first(parts, m) ==
    <<at(parts, 0), at(parts, 6), at(parts, 7), at(parts, 8), at(parts, 3),
      at(parts, 4), at(parts, 5), at(parts, 1), Num(m)>>

\* f"{parts[6]} {parts[7]} {parts[8]} {parts[0]} {parts[3]} {parts[4]}
\*    {parts[5]} {parts[1]} {str(m_abs)} \n"
reduced_line(parts, m) ==
    <<at(parts, 6), at(parts, 7), at(parts, 8), at(parts, 0), at(parts, 3),
      at(parts, 4), at(parts, 5), at(parts, 1), Num(m)>>

\* open(..., 'a')
open_for_appending(file) == File(file.rows)

\* open(..., 'w'): the file is created, or emptied if it exists.
open_for_writing(file) == File(<<>>)

\* The entry of reduce_magnitudes: the counters, and the two files opened.
RmEnter ==
    /\ pc = "reduce"
    /\ n_discarded_obs' = 0
    /\ n_obs_left' = 0
    /\ reduced_data' = open_for_writing(reduced_data)
    /\ rm_line_no' = 1
    /\ pc' = "rm_line"
    /\ UNCHANGED <<ephemVars, obsVars, joinVars, dateVars,
                   total_observations, reduced_observations, twiceVars>>

\* One iteration of "for line in infile".  A filter that is not a key of
\* v_band_correction raises KeyError, which nothing catches.
RmLine ==
    /\ pc = "rm_line"
    /\ rm_line_no <= Len(modified_dates.rows)
    /\ LET parts == modified_parts(modified_dates.rows[rm_line_no])
           m_observed == float(at(parts, 1).s)
           filter_value == at(parts, 2).s
           delta_value == float(at(parts, 3).s)
           r_value == float(at(parts, 4).s)
           correction == band_correction(filter_value)
       IN IF not_in_discarded_filters(filter_value)
          THEN IF correction.is_none
               THEN /\ pc' = "crashed"
                    /\ UNCHANGED <<reduced_data, rm_line_no, n_discarded_obs, n_obs_left>>
               ELSE /\ reduced_data' =
                          File(Append(reduced_data.rows,
                                      reduced_line(parts, m_abs(m_observed, delta_value,
                                                                r_value, correction.v))))
                    /\ n_obs_left' = n_obs_left + 1
                    /\ rm_line_no' = rm_line_no + 1
                    /\ pc' = "rm_line"
                    /\ UNCHANGED n_discarded_obs
          ELSE /\ n_discarded_obs' = n_discarded_obs + 1
               /\ rm_line_no' = rm_line_no + 1
               /\ pc' = "rm_line"
               /\ UNCHANGED <<reduced_data, n_obs_left>>
    /\ UNCHANGED <<ephemVars, obsVars, joinVars, dateVars,
                   total_observations, reduced_observations, twiceVars>>

\* The last line is done: modified_dates.txt is removed and n_obs_left
\* returned.
RmReturn ==
    /\ pc = "rm_line"
    /\ rm_line_no > Len(modified_dates.rows)
    /\ modified_dates' = remove_if_exists(modified_dates)
    /\ pc' = "rename"
    /\ UNCHANGED <<ephemVars, obsVars, joinVars, line_no, delta_days, wraps,
                   reduceVars, twiceVars>>

\* --------------------------------------------------- rename_and_move_files

\* A move that is made whatever the count.
always_moved(n) == TRUE

\* "if n_obs_left != 0" before the second os.rename
reduced_is_moved(n) == n # 0

\* combined_data.txt is moved to 'Total observations'; reduced_data.txt is
\* moved to 'Reduced observations' or removed.  The loop of __main__ then
\* asks for the next object.
RenameAndMoveFiles ==
    /\ pc = "rename"
    /\ total_observations' = File(combined_data.rows)
    /\ combined_data' = NoFile
    /\ reduced_observations' =
          IF reduced_is_moved(n_obs_left) THEN File(reduced_data.rows)
          ELSE reduced_observations
    /\ reduced_data' =
          IF reduced_is_moved(n_obs_left) THEN NoFile ELSE remove_if_exists(reduced_data)
    /\ pc' = "input"
    /\ UNCHANGED <<ephemVars, obsVars, n_obs, combine_in, combine_printed, dateVars,
                   rm_line_no, n_discarded_obs, n_obs_left, twiceVars>>

\* ------------------------------------------------- the three stages again

\* What combine_data, correct_dates and reduce_magnitudes leave: the three
\* files, the counts returned, and where the run stands.
Output ==
    [combined |-> combined_data, modified |-> modified_dates, reduced |-> reduced_data,
     n_obs |-> n_obs, n_discarded_obs |-> n_discarded_obs, n_obs_left |-> n_obs_left,
     pc |-> pc]

\* The three stages have ended: reduce_magnitudes returned or raised, or
\* the join was empty.
StagesEnded == pc \in {"rename", "input", "crashed"}

\* The two downloaded files are put back as they were read and the three
\* stages are called again, in the directory the first pass left.
RunAgain ==
    /\ pass = 1
    /\ StagesEnded
    /\ first_out' = Output
    /\ pass' = 2
    /\ downloaded_ephem_data' = File(combine_in.eph)
    /\ downloaded_obs_data' = File(combine_in.obs)
    /\ pc' = "combine"
    /\ UNCHANGED <<in_start, in_end, start_date, difference, n_iterations, append_mode,
                   success_down_ephem, requests, success_down_obs, obs_requests,
                   perihelion_date_str, period_str, perihelion_date, period, prompts,
                   joinVars, dateVars, reduceVars>>

\* The state of the variables of combine_data before it is called.
JoinNotStarted ==
    /\ combined_data = NoFile
    /\ n_obs = 0
    /\ combine_in = [obs |-> <<>>, eph |-> <<>>]
    /\ combine_printed = <<>>

\* The state of the variables of correct_dates before it is called.
DatesNotStarted ==
    /\ modified_dates = NoFile
    /\ line_no = 0
    /\ delta_days = 0
    /\ wraps = 0

\* The state of the variables of reduce_magnitudes and of
\* rename_and_move_files before they are called.
ReduceNotStarted ==
    /\ reduced_data = NoFile
    /\ rm_line_no = 0
    /\ n_discarded_obs = 0
    /\ n_obs_left = 0
    /\ total_observations = NoFile
    /\ reduced_observations = NoFile

\* The first pass over the files: nothing recorded yet.
NoOutput == [combined |-> NoFile, modified |-> NoFile, reduced |-> NoFile,
             n_obs |-> 0, n_discarded_obs |-> 0, n_obs_left |-> 0, pc |-> ""]
FirstPass == pass = 1 /\ first_out = NoOutput

\* -------------------------------------------------------- specifications

vars == <<pc, ephemVars, obsVars, joinVars, dateVars, reduceVars, twiceVars>>

\* The state before user_input.  A downloaded_ephem_data.txt may lie in the
\* working directory from an earlier run.
InitFetch ==
    /\ pc = "input"
    /\ in_start = 0 /\ in_end = 0
    /\ start_date = 0 /\ difference = 0 /\ n_iterations = 0
    /\ append_mode = FALSE
    /\ success_down_ephem = 0 /\ success_down_obs = 0
    /\ downloaded_ephem_data \in {NoFile, StaleFile}
    /\ downloaded_obs_data = NoFile
    /\ requests = <<>>
    /\ obs_requests = 0
    /\ perihelion_date_str = [kind |-> "notag", date |-> 0]
    /\ period_str = [kind |-> "notag", years |-> 0]
    /\ perihelion_date = None /\ period = None
    /\ prompts = <<>>
    /\ JoinNotStarted
    /\ DatesNotStarted
    /\ ReduceNotStarted
    /\ FirstPass

NextFetch ==
    \/ UserInput \/ EphemChunk \/ EphemLoopExit \/ MainAfterEphem
    \/ ObsRequest \/ EpochRetrieve \/ EpochConfirm \/ MainAfterObs

\* The fetch stages of one run: both downloads and the epoch parameters.
SpecFetch == InitFetch /\ [][NextFetch]_vars

\* The sequences of at most n members of S.
SeqsUpTo(S, n) == UNION { [1..k -> S] : k \in 0..n }

\* The lines combine_data may find in the two files: ephemeris lines of two
\* days, a day possibly repeated, and observation lines of three days, with
\* and without a filter code.
EphLineSet == { EphRow(d, x) : d \in {1, 2}, x \in {"1.5", "2.5"} }
ObsLineSet == { [date |-> d, parts |-> w] : d \in {1, 2, 3}, w \in {<<"18.5", "V">>, <<"16.0">>} }

\* The state in which __main__ calls combine_data: both downloads returned
\* 1 and stored their files.
InitJoin ==
    /\ pc = "combine"
    /\ in_start = 1 /\ in_end = 2
    /\ start_date = 3 /\ difference = 0 /\ n_iterations = 1
    /\ append_mode = FALSE
    /\ success_down_ephem = 1 /\ success_down_obs = 1
    /\ downloaded_ephem_data \in { File(e) : e \in SeqsUpTo(EphLineSet, MaxEphLines) }
    /\ downloaded_obs_data \in { File(o) : o \in SeqsUpTo(ObsLineSet, MaxObsLines) }
    /\ requests = <<[d |-> 1, l |-> 2, ok |-> TRUE, rows |-> downloaded_ephem_data.rows]>>
    /\ obs_requests = 1
    /\ perihelion_date_str = [kind |-> "date", date |-> 1]
    /\ period_str = [kind |-> "years", years |-> 1]
    /\ perihelion_date = Some(1) /\ period = Some(YEAR_Q)
    /\ prompts = <<"agree">>
    /\ JoinNotStarted
    /\ DatesNotStarted
    /\ ReduceNotStarted
    /\ FirstPass

NextJoin == CombineData \/ MainAfterCombine

\* combine_data on two stored files, and the test of its result.
SpecJoin == InitJoin /\ [][NextJoin]_vars

\* A line of combined_data.txt of day d.
CombinedLine(d) == JoinedRow([date |-> d, parts |-> <<"18.5", "V">>], EphRow(d, "1.5"))

\* The calls of correct_dates checked: files of one line, or of a line and
\* the line of the opposite day, within MaxDelta days of a perihelion, with
\* every period up to MaxPeriodQ quarter days, zero, a negative one and
\* None; and lines 400 days before and 3835 days after the perihelion with
\* periods of one and of three years.
DateCases ==
    { [rows |-> f, perihelion |-> a, period |-> b] :
        f \in { <<CombinedLine(d)>> : d \in -MaxDelta..MaxDelta }
               \cup { <<CombinedLine(d), CombinedLine(-d)>> : d \in -MaxDelta..MaxDelta },
        a \in {Some(0), Some(2), None},
        b \in { Some(x) : x \in -1..MaxPeriodQ } \cup {None} }
    \cup
    { [rows |-> <<CombinedLine(a + d)>>, perihelion |-> Some(a), period |-> Some(y * YEAR_Q)] :
        a \in {0, 2}, d \in {-400, 3835}, y \in {1, 3} }

\* The state in which __main__ has entered correct_dates: combine_data
\* returned a count that is not zero.
InitDates ==
    /\ pc = "cd_line"
    /\ in_start = 1 /\ in_end = 2
    /\ start_date = 3 /\ difference = 0 /\ n_iterations = 1
    /\ append_mode = FALSE
    /\ success_down_ephem = 1 /\ success_down_obs = 1
    /\ downloaded_ephem_data = NoFile
    /\ downloaded_obs_data = NoFile
    /\ obs_requests = 1
    /\ perihelion_date_str = [kind |-> "blank", date |-> 0]
    /\ period_str = [kind |-> "blank", years |-> 0]
    /\ prompts = <<"perihelion", "period", "agree">>
    /\ \E c \in DateCases :
        /\ combined_data = File(c.rows)
        /\ n_obs = Len(c.rows)
        /\ combine_printed = printed_by_combine(Len(c.rows))
        /\ combine_in =
              [obs |-> [i \in 1..Len(c.rows) |-> [date |-> c.rows[i].date, parts |-> c.rows[i].parts]],
               eph |-> [i \in 1..Len(c.rows) |-> EphRow(c.rows[i].date, c.rows[i].delta)]]
        /\ requests = <<[d |-> 1, l |-> 2, ok |-> TRUE, rows |-> combine_in.eph]>>
        /\ perihelion_date = c.perihelion
        /\ period = c.period
    /\ modified_dates = File(<<>>)
    /\ line_no = 1
    /\ delta_days = 0
    /\ wraps = 0
    /\ ReduceNotStarted
    /\ FirstPass

NextDates == CdReadLine \/ CdWrapLo \/ CdWrapHi \/ CdWrite \/ CdReturn

\* correct_dates on a file of joined lines.
SpecDates == InitDates /\ [][NextDates]_vars

\* The joined lines reduce_magnitudes is checked on: a kept filter, a
\* discarded one, a kept one with a correction, and one the table lacks.
ReduceLineSet ==
    { JoinedRow([date |-> d, parts |-> w], EphRow(d, x)) :
        d \in {1, 3}, x \in {"1.5", "2.5"},
        w \in {<<"18.5", "V">>, <<"17.0", "U">>, <<"16.0", "R">>, <<"15.0", "X">>} }

\* The state in which __main__ calls reduce_magnitudes: correct_dates has
\* written one line for each joined line, for a perihelion on day 1 and a
\* period of a year.
InitReduce ==
    /\ pc = "reduce"
    /\ in_start = 1 /\ in_end = 3
    /\ start_date = 4 /\ difference = 0 /\ n_iterations = 1
    /\ append_mode = FALSE
    /\ success_down_ephem = 1 /\ success_down_obs = 1
    /\ downloaded_ephem_data = NoFile
    /\ downloaded_obs_data = NoFile
    /\ obs_requests = 1
    /\ perihelion_date_str = [kind |-> "date", date |-> 1]
    /\ period_str = [kind |-> "years", years |-> 1]
    /\ prompts = <<"agree">>
    /\ perihelion_date = Some(1)
    /\ period = Some(YEAR_Q)
    /\ \E c \in SeqsUpTo(ReduceLineSet, MaxRedLines) \ {<<>>} :
        /\ combined_data = File(c)
        /\ n_obs = Len(c)
        /\ combine_printed = printed_by_combine(Len(c))
        /\ combine_in =
              [obs |-> [i \in 1..Len(c) |-> [date |-> c[i].date, parts |-> c[i].parts]],
               eph |-> [i \in 1..Len(c) |-> EphRow(c[i].date, c[i].delta)]]
        /\ requests = <<[d |-> 1, l |-> 3, ok |-> TRUE, rows |-> combine_in.eph]>>
        /\ modified_dates =
              File([i \in 1..Len(c) |->
                      ModifiedRow(c[i], python_round(day_difference(c[i].date, 1)))])
        /\ line_no = Len(c) + 1
        /\ delta_days = day_difference(c[Len(c)].date, 1)
    /\ wraps = 0
    /\ ReduceNotStarted
    /\ FirstPass

NextReduce == RmEnter \/ RmLine \/ RmReturn \/ RenameAndMoveFiles

\* reduce_magnitudes and rename_and_move_files on a file of lines with
\* offsets.
SpecReduce == InitReduce /\ [][NextReduce]_vars

\* The intervals typed in the runs followed from user_input to the moved
\* files: one day, two days, and one day more than a request may ask for.
RunSpans == {1, 2, MAX_SPAN + 1}

\* The state in which user_input has returned and download_ephem_for_period
\* is entered.
InitRun ==
    /\ pc = "ephem_loop"
    /\ in_start = 1
    /\ in_end \in { in_start + n - 1 : n \in RunSpans }
    /\ start_date = in_start
    /\ difference = (in_end - in_start) + 1
    /\ n_iterations = 0
    /\ append_mode = FALSE
    /\ success_down_ephem = 0 /\ success_down_obs = 0
    /\ downloaded_ephem_data \in {NoFile, StaleFile}
    /\ downloaded_obs_data = NoFile
    /\ requests = <<>>
    /\ obs_requests = 0
    /\ perihelion_date_str = [kind |-> "notag", date |-> 0]
    /\ period_str = [kind |-> "notag", years |-> 0]
    /\ perihelion_date = None /\ period = None
    /\ prompts = <<>>
    /\ JoinNotStarted
    /\ DatesNotStarted
    /\ ReduceNotStarted
    /\ FirstPass

NextRun ==
    \/ EphemChunk \/ EphemLoopExit \/ MainAfterEphem
    \/ ObsRequest \/ EpochRetrieve \/ EpochConfirm \/ MainAfterObs
    \/ CombineData \/ MainAfterCombine
    \/ CdReadLine \/ CdWrapLo \/ CdWrapHi \/ CdWrite \/ CdReturn
    \/ RmEnter \/ RmLine \/ RmReturn \/ RenameAndMoveFiles

\* One pass of the loop of __main__, from the typed interval to the moved
\* files.
SpecRun == InitRun /\ [][NextRun]_vars

\* The observation lines the repeated stages are checked on: a kept filter,
\* a discarded one and one the table lacks.
TwiceObsLineSet ==
    { [date |-> d, parts |-> w] :
        d \in {1, 2}, w \in {<<"18.5", "V">>, <<"17.0", "U">>, <<"15.0", "X">>} }

\* The state in which __main__ calls combine_data, with a perihelion on day
\* 1 and a period of a year or of three quarter days.
InitTwice ==
    /\ pc = "combine"
    /\ in_start = 1 /\ in_end = 2
    /\ start_date = 3 /\ difference = 0 /\ n_iterations = 1
    /\ append_mode = FALSE
    /\ success_down_ephem = 1 /\ success_down_obs = 1
    /\ downloaded_ephem_data \in { File(e) : e \in SeqsUpTo(EphLineSet, MaxEphLines) }
    /\ downloaded_obs_data \in { File(o) : o \in SeqsUpTo(TwiceObsLineSet, MaxObsLines) }
    /\ requests = <<[d |-> 1, l |-> 2, ok |-> TRUE, rows |-> downloaded_ephem_data.rows]>>
    /\ obs_requests = 1
    /\ perihelion_date_str = [kind |-> "date", date |-> 1]
    /\ period_str = [kind |-> "years", years |-> 1]
    /\ prompts = <<"agree">>
    /\ perihelion_date = Some(1)
    /\ period \in {Some(YEAR_Q), Some(3)}
    /\ JoinNotStarted
    /\ DatesNotStarted
    /\ ReduceNotStarted
    /\ FirstPass

NextTwice ==
    \/ CombineData \/ MainAfterCombine
    \/ CdReadLine \/ CdWrapLo \/ CdWrapHi \/ CdWrite \/ CdReturn
    \/ RmEnter \/ RmLine \/ RmReturn
    \/ RunAgain

\* combine_data, correct_dates and reduce_magnitudes, and the same once more
\* on the same two files.
SpecTwice == InitTwice /\ [][NextTwice]_vars

\* ------------------------------------------------ the ephemeris fetch, C1-C4

\* The number of days of the typed interval, both ends included.
span == in_end - in_start + 1

CeilDiv(a, b) == (a + b - 1) \div b

RECURSIVE DaysRequested(_, _)
DaysRequested(reqs, n) == IF n = 0 THEN 0 ELSE DaysRequested(reqs, n - 1) + reqs[n].l

\* download_ephem_for_period has returned 1.
EphemFetched == pc \notin {"input", "ephem_loop"} /\ success_down_ephem = 1

\* C1: when every chunk request succeeds, ceil(span / 4001) requests were sent;
\* each asks for min(days left, 4001) days, the first starts on the start date,
\* each next one starts on the day after the previous one ends, and the last
\* ends on the end date.
C1_ChunksCoverInterval ==
    EphemFetched =>
        /\ span >= 1
        /\ Len(requests) = CeilDiv(span, MAX_SPAN)
        /\ requests[1].d = in_start
        /\ \A i \in 1..Len(requests) :
              /\ requests[i].ok
              /\ requests[i].l = Min(span - DaysRequested(requests, i - 1), MAX_SPAN)
              /\ requests[i].l >= 1
              /\ i < Len(requests) => requests[i + 1].d = requests[i].d + requests[i].l
        /\ requests[Len(requests)].d + requests[Len(requests)].l - 1 = in_end

\* A fetch of three requests whose last one is shorter than 4001 days.
C1_Witness ==
    /\ EphemFetched
    /\ Len(requests) = 3
    /\ requests[3].l < MAX_SPAN

\* C2: a request that fails is the last one sent: it is sent once, nothing
\* is requested after it, and the fetch returns 0.
C2_FailedChunkEndsFetch ==
    /\ \A i \in 1..Len(requests) :
          ~requests[i].ok =>
              /\ i = Len(requests)
              /\ pc \in {"ephem_return", "aborted"}
              /\ success_down_ephem = 0
              /\ obs_requests = 0
    /\ \A i, j \in 1..Len(requests) : i < j => requests[i].d < requests[j].d

\* The third request failed and the run is over.
C2_Witness ==
    /\ pc = "aborted"
    /\ Len(requests) = 3
    /\ ~requests[3].ok

\* C3: after a fetch-stage error the run is aborted and the rows stored by
\* the chunks that succeeded are not left in downloaded_ephem_data.txt.
C3_NoPartialArtifact ==
    (pc = "aborted" /\ \E i \in 1..Len(requests) : requests[i].ok)
        => ~downloaded_ephem_data.exists

\* C4: after a successful fetch the stored rows are the data rows of the
\* chunks, concatenated in request order.
C4_StoredRowsAreConcatenation ==
    EphemFetched =>
        downloaded_ephem_data =
            File(Flatten([i \in 1..Len(requests) |-> requests[i].rows]))

\* Three chunks, each with two data rows, all six of them stored.
C4_Witness ==
    /\ EphemFetched
    /\ Len(requests) = 3
    /\ \A i \in 1..3 : Len(requests[i].rows) = 2
    /\ Len(downloaded_ephem_data.rows) = 6

\* ---------------------------------------------------------- the join, C5-C6

\* combine_data has returned.
CombineDone == pc = "combined"

\* The pairs (observation line, ephemeris line) of the files read that
\* carry the same date, and those whose observation line has five fields.
DatePairs ==
    { q \in (1..Len(combine_in.obs)) \X (1..Len(combine_in.eph)) :
        combine_in.obs[q[1]].date = combine_in.eph[q[2]].date }
FiveFieldPairs == { q \in DatePairs : 3 + Len(combine_in.obs[q[1]].parts) >= 5 }

\* The line made of the observation fields of a pair followed by delta, r
\* and phase of its ephemeris line.
LineOfPair(q) ==
    [date |-> combine_in.obs[q[1]].date,
     parts |-> combine_in.obs[q[1]].parts,
     delta |-> combine_in.eph[q[2]].delta,
     r |-> combine_in.eph[q[2]].r,
     phase |-> combine_in.eph[q[2]].phase]

\* combined_data.txt holds one line for every pair of P and nothing else,
\* and n_obs is the number of its lines.
OneLinePerPair(P) ==
    LET out == combined_data.rows
    IN /\ combined_data.exists
       /\ n_obs = Len(out)
       /\ Len(out) = Cardinality(P)
       /\ \A k \in 1..Len(out) : \E q \in P : out[k] = LineOfPair(q)
       /\ \A q \in P :
             Cardinality({ k \in 1..Len(out) : out[k] = LineOfPair(q) })
                 = Cardinality({ q2 \in P : LineOfPair(q2) = LineOfPair(q) })

\* C5 as stated: one joined line for every pair of lines of equal date.
C5_OneLinePerDatePair == CombineDone => OneLinePerPair(DatePairs)

\* C5, amended: one joined line for every pair of lines of equal date whose
\* observation line has at least five fields; observation lines of a shared
\* date each give their own line, a line without a match gives none, and
\* the count returned is the number of lines written.
C5_OneLinePerFiveFieldPair == CombineDone => OneLinePerPair(FiveFieldPairs)

\* Two observation lines of one date and two ephemeris lines of that
\* date: four joined lines.
C5_Witness ==
    /\ CombineDone
    /\ Len(combine_in.obs) = 2
    /\ combine_in.obs[1].date = combine_in.obs[2].date
    /\ Len(combine_in.eph) = 2
    /\ Cardinality(FiveFieldPairs) = 4
    /\ n_obs = 4

\* No two lines of the ephemeris file read carry the same date.
NoRepeatedDate ==
    \A i, j \in 1..Len(combine_in.eph) :
        combine_in.eph[i].date = combine_in.eph[j].date => i = j

\* C6 as stated: no more joined lines than observation lines.
C6_AtMostObsLines == CombineDone => Len(combined_data.rows) <= Len(combine_in.obs)

\* C6, amended: no more joined lines than observation lines when no two
\* ephemeris lines carry the same date.
C6_AtMostObsLinesIfDatesDiffer ==
    (CombineDone /\ NoRepeatedDate) => Len(combined_data.rows) <= Len(combine_in.obs)

\* Two ephemeris lines of different dates and as many joined lines as
\* observation lines.
C6_Witness ==
    /\ CombineDone
    /\ NoRepeatedDate
    /\ Len(combine_in.eph) = 2
    /\ Len(combine_in.obs) = 2
    /\ Len(combined_data.rows) = 2

\* ------------------------------------------- the date normalisation, C7-C10

\* The day difference of line k of combined_data.txt to the perihelion.
DaysFromPerihelion(k) == combined_data.rows[k].date - perihelion_date.v

\* C7: for a period > 0, the offset of a line before rounding lies in
\* [-period/2, period/2] and differs from the line's day difference to the
\* perihelion by a multiple of the period.
C7_WrappedOffsetInInterval ==
    (pc = "cd_write" /\ period.v > 0) =>
        /\ -period.v <= 2 * delta_days
        /\ 2 * delta_days <= period.v
        /\ (delta_days - DaysFromPerihelion(line_no) * Q) % period.v = 0

\* A line whose offset took two iterations of a wrap loop.
C7_Witness ==
    /\ pc = "cd_write"
    /\ period.v > 0
    /\ wraps >= 2
    /\ delta_days # DaysFromPerihelion(line_no) * Q

\* C8: with a period that is not positive correct_dates runs no iteration
\* of a wrap loop: it has stopped with an error before.
C8_NoWrapUnlessPeriodPositive ==
    (~period.is_none /\ period.v <= 0) => wraps = 0

\* C9 as stated: a line 400 days before the perihelion, with a period of
\* 365.25 days, is written with the offset 35.
C9_OffsetIs35 ==
    \A k \in 1..Len(modified_dates.rows) :
        (period.v = YEAR_Q /\ DaysFromPerihelion(k) = -400)
            => modified_dates.rows[k].days = 35

\* C9, amended: a line 400 days before the perihelion, with a period of
\* 365.25 days, is written with the offset -35.
C9_OffsetIsMinus35 ==
    \A k \in 1..Len(modified_dates.rows) :
        (period.v = YEAR_Q /\ DaysFromPerihelion(k) = -400)
            => modified_dates.rows[k].days = -35

\* The line 400 days before the perihelion has been written.
C9_Witness ==
    \E k \in 1..Len(modified_dates.rows) :
        period.v = YEAR_Q /\ DaysFromPerihelion(k) = -400

\* C10 as stated: for a period > 0 the rounded offset written for a line
\* lies in [-period/2, period/2].
C10_RoundedOffsetInInterval ==
    \A k \in 1..Len(modified_dates.rows) :
        period.v > 0 =>
            /\ -period.v <= 2 * Q * modified_dates.rows[k].days
            /\ 2 * Q * modified_dates.rows[k].days <= period.v

\* C10, amended: for a period > 0 the rounded offset written for a line
\* lies in [-period/2 - 1/2, period/2 + 1/2].
C10_RoundedOffsetWithinHalfDay ==
    \A k \in 1..Len(modified_dates.rows) :
        period.v > 0 =>
            /\ -(period.v + Q) <= 2 * Q * modified_dates.rows[k].days
            /\ 2 * Q * modified_dates.rows[k].days <= period.v + Q

\* A written offset that a wrap loop produced and rounding moved beyond
\* half of the period.
C10_Witness ==
    \E k \in 1..Len(modified_dates.rows) :
        /\ period.v > 0
        /\ 2 * Q * modified_dates.rows[k].days > period.v
        /\ modified_dates.rows[k].days # DaysFromPerihelion(k)


\* ------------------------------------------------- the reduction, C11-C12

\* The filters the specification lists as discarded.
ListedAsDiscarded == {"U", "u", "B", "I", "J", "H", "K"}

\* reduce_magnitudes is reading lines or has stopped reading them.
Reducing == pc \in {"rm_line", "crashed"} /\ rm_line_no > 0
ReduceReturned == pc = "rename"

\* The filter of the k-th line given to reduce_magnitudes; the joined file
\* holds the same lines in the same order.
FilterOfLine(k) == combined_data.rows[k].parts[2]

\* The numbers of the lines among the first k whose filter is not listed.
RECURSIVE KeptAmong(_)
KeptAmong(k) ==
    IF k = 0 THEN <<>>
    ELSE IF FilterOfLine(k) \in ListedAsDiscarded THEN KeptAmong(k - 1)
    ELSE Append(KeptAmong(k - 1), k)

\* The lines read so far.
LinesRead == rm_line_no - 1

\* C11: while reduce_magnitudes runs and when it has returned, the lines
\* discarded are exactly the lines read whose filter is one of U, u, B, I,
\* J, H, K, and the lines kept are all the other lines read, each with one
\* output line; when it has returned, kept and discarded together are all
\* the input lines.  A line with filter U therefore adds one to the
\* discarded count and nothing to the kept count.
C11_DiscardsExactlyListedFilters ==
    (Reducing \/ ReduceReturned) =>
        /\ n_obs_left = Len(KeptAmong(LinesRead))
        /\ n_discarded_obs = LinesRead - Len(KeptAmong(LinesRead))
        /\ Len(reduced_data.rows) = n_obs_left
        /\ ReduceReturned => n_obs_left + n_discarded_obs = Len(combined_data.rows)

\* reduce_magnitudes has returned from a file with a line of filter U and a
\* line of filter V: one is discarded, one is kept.
C11_Witness ==
    /\ ReduceReturned
    /\ Len(combined_data.rows) = 2
    /\ FilterOfLine(1) = "U" /\ FilterOfLine(2) = "V"
    /\ n_discarded_obs = 1 /\ n_obs_left = 1

\* The filter of line k is neither discarded nor a key of the table.
UnknownFilter(k) ==
    /\ FilterOfLine(k) \notin ListedAsDiscarded
    /\ FilterOfLine(k) \notin DOMAIN v_band_correction

\* C12: no line with a filter that is neither discarded nor in the
\* correction table is ever passed: such a line is the one being read, the
\* function stops there with the error, nothing is written for it, and
\* reduce_magnitudes does not return.
C12_UnknownFilterAborts ==
    /\ (Reducing \/ ReduceReturned) =>
          \A k \in 1..Len(combined_data.rows) :
              UnknownFilter(k) => /\ k >= rm_line_no
                                  /\ ~ReduceReturned
    /\ (pc = "crashed" /\ rm_line_no > 0) =>
          /\ UnknownFilter(rm_line_no)
          /\ Len(reduced_data.rows) = Len(KeptAmong(LinesRead))
          /\ n_obs_left + n_discarded_obs = LinesRead

\* The error is raised at a first line with an unknown filter that is
\* followed by a line with the filter V.
C12_Witness ==
    /\ pc = "crashed"
    /\ rm_line_no = 1
    /\ Len(combined_data.rows) = 2
    /\ UnknownFilter(1)
    /\ FilterOfLine(2) = "V"
    /\ reduced_data = File(<<>>)

\* --------------------------------------------------- the magnitude, C18

\* The fields of the k-th joined line as numbers and the table's entry.
Observed(k) == float(combined_data.rows[k].parts[1])
Distances(k) == float(combined_data.rows[k].delta) * float(combined_data.rows[k].r)
Correction(k) == v_band_correction[FilterOfLine(k)]

\* observed - 5 log10(delta r) + correction, rounded to hundredths.
Reduced(k) == round_2(Observed(k) * 1000 - five_log10(Distances(k)) + Correction(k) * 1000)

\* The last field of the j-th output line, in hundredths.
Written(j) == reduced_data.rows[j][9].i

\* Every output line holds the formula's value for its input line.
FormulaHolds ==
    (Reducing \/ ReduceReturned) =>
        \A j \in 1..Len(reduced_data.rows) :
            Written(j) = Reduced(KeptAmong(LinesRead)[j])

\* The line of the worked example: 18.5, V, 1.5, 1.2.
IsExample(k) ==
    /\ combined_data.rows[k].parts = <<"18.5", "V">>
    /\ combined_data.rows[k].delta = "1.5"
    /\ combined_data.rows[k].r = "1.2"

ExampleGives(m) ==
    (Reducing \/ ReduceReturned) =>
        \A j \in 1..Len(reduced_data.rows) :
            IsExample(KeptAmong(LinesRead)[j]) => Written(j) = m

\* C18 as stated: the value written is the formula's, and for 18.5, V, 1.5
\* and 1.2 it is 17.71.
C18_ExampleIs1771 == FormulaHolds /\ ExampleGives(1771)

\* C18: the value written for a kept line is observed - 5 log10(delta r) +
\* correction rounded to two decimals, and for 18.5, V, 1.5 and 1.2 it is
\* 17.22.
C18_ExampleIs1722 == FormulaHolds /\ ExampleGives(1722)

\* The example line has been reduced, after a line with the correction 0.4
\* and the product 3.0.
C18_Witness ==
    /\ ReduceReturned
    /\ Len(reduced_data.rows) = 2
    /\ combined_data.rows[1].parts = <<"16.0", "R">>
    /\ combined_data.rows[1].delta = "2.5"
    /\ IsExample(2)
    /\ Written(1) = 1401
    /\ Written(2) = 1722

\* ------------------------------------------------- the field order, C19

\* The order the specification gives for a line of the reduced output.
ReducedOrder(row, days, m) ==
    <<Year(row.date), Month(row.date), Day(row.date), Num(days), Str(row.delta),
      Str(row.r), Str(row.phase), Str(row.parts[1]), Num(m)>>

\* The order the specification gives for a line of the total output.
TotalOrder(row) ==
    <<Year(row.date), Month(row.date), Day(row.date), Str(row.parts[1]),
      Str(row.parts[2]), Str(row.delta), Str(row.r), Str(row.phase)>>

\* C19: every line reduce_magnitudes writes is year, month, day, offset,
\* delta, r, phase, observed magnitude, absolute magnitude of its input
\* line, the three date fields being those of the joined line; the file
\* moved to 'Reduced observations' holds lines of that shape; and every
\* line of the total output is year, month, day, magnitude, filter, delta,
\* r, phase.
C19_FieldOrder ==
    /\ Reducing =>
          \A j \in 1..Len(reduced_data.rows) :
              LET k == KeptAmong(LinesRead)[j]
              IN reduced_data.rows[j] =
                    ReducedOrder(combined_data.rows[k], modified_dates.rows[k].days,
                                 Written(j))
    /\ reduced_observations.exists =>
          \A j \in 1..Len(reduced_observations.rows) :
              LET line == reduced_observations.rows[j]
              IN /\ [i \in 1..Len(line) |-> line[i].f] =
                       <<"year", "month", "day", "num", "txt", "txt", "txt", "txt", "num">>
                 /\ line[1].i = line[2].i /\ line[2].i = line[3].i
    /\ total_observations.exists =>
          \A k \in 1..Len(total_observations.rows) :
              combined_parts(total_observations.rows[k]) = TotalOrder(total_observations.rows[k])

\* Both files have been moved: two joined lines of day 3, one of them kept.
C19_Witness ==
    /\ pc = "input"
    /\ Len(total_observations.rows) = 2
    /\ Len(reduced_observations.rows) = 1
    /\ total_observations.rows[1].date = 3
    /\ reduced_observations.rows[1][4] = Num(2)

\* ---------------------------------------------------- the artifacts, C16

\* rename_and_move_files has returned.
Emitted == pc = "input" /\ rm_line_no > 0

\* C16 as stated: neither file is in its folder unless a line was kept.
C16_NoArtifactUnlessKept ==
    (total_observations.exists \/ reduced_observations.exists) => n_obs_left # 0

\* C16: the Reduced observations file is in its folder only if a line was
\* kept, and then holds the kept lines; when no line was kept
\* reduced_data.txt is removed; the Total observations file is in its
\* folder after every run that reaches rename_and_move_files, also when no
\* line was kept.
C16_OnlyReducedNeedsKeptLine ==
    /\ reduced_observations.exists =>
          n_obs_left # 0 /\ Len(reduced_observations.rows) = n_obs_left
    /\ Emitted =>
          /\ total_observations.exists
          /\ Len(total_observations.rows) = n_obs_left + n_discarded_obs
          /\ ~reduced_data.exists
          /\ n_obs_left # 0 => reduced_observations.exists

\* A run whose joined lines were all discarded has moved the total file.
C16_Witness ==
    /\ Emitted
    /\ n_obs_left = 0
    /\ n_discarded_obs = 2
    /\ total_observations.exists
    /\ ~reduced_observations.exists


\* ------------------------------------------- the epoch parameters, C13-C15

\* correct_dates is running.
Normalizing == pc \in {"cd_line", "cd_wrap_lo", "cd_wrap_hi", "cd_write"}

\* C13 as stated: correct_dates never runs with a perihelion date of None
\* or a period of None.
C13_NoNoneIntoNormalization ==
    Normalizing => ~perihelion_date.is_none /\ ~period.is_none

\* The table was found and a metadata cell is absent or is a text the
\* parser rejects.
MetadataAbsentOrMalformed ==
    /\ obs_requests > 0
    /\ success_down_obs = 1
    /\ \/ perihelion_date_str.kind \in {"notag", "text"}
       \/ period_str.kind \in {"notag", "text"}

\* C14 as stated: with a metadata value absent or malformed,
\* download_observations does not end abnormally.
C14_AbsentOrMalformedFallsBack == MetadataAbsentOrMalformed => pc # "crashed"

\* The number of times the question q was asked.
RECURSIVE Asked(_, _)
Asked(q, ps) ==
    IF ps = <<>> THEN 0
    ELSE (IF Head(ps) = q THEN 1 ELSE 0) + Asked(q, Tail(ps))

\* C15: the confirmation is asked at most once in a run, and not before
\* both values are resolved; the step that asks it asks it once and either
\* keeps both values as they are, or asks for the perihelion date and for
\* the period again, whatever was typed before.
C15_OneCombinedConfirmation ==
    /\ [](Asked("agree", prompts) <= 1)
    /\ [](pc \in {"obs", "epoch", "confirm"} => Asked("agree", prompts) = 0)
    /\ [][pc = "confirm" =>
            \/ /\ prompts' = Append(prompts, "agree")
               /\ perihelion_date' = perihelion_date
               /\ period' = period
            \/ /\ prompts' = prompts \o <<"agree", "perihelion", "period">>
               /\ \E a \in DateAnswers(in_start) :
                      perihelion_date' = new_perihelion_or_period(a)
               /\ \E b \in PeriodAnswers : period' = new_perihelion_or_period(b)]_vars

\* The period came from the page, the perihelion date was typed, the values
\* were rejected and both were typed again.
C15_Witness ==
    /\ pc = "obs_return"
    /\ perihelion_date_str.kind = "blank"
    /\ period_str.kind = "years"
    /\ prompts = <<"perihelion", "agree", "perihelion", "period">>
    /\ period = Some(-YEAR_Q)

\* ------------------------------------------------ the order of stages, C17

ObsIssued == obs_requests > 0
JoinEntered == combined_data.exists \/ n_obs > 0 \/ combine_in.obs # <<>> \/ combine_in.eph # <<>>
NormalizeEntered == modified_dates.exists \/ line_no > 0
ReduceEntered == reduced_data.exists \/ rm_line_no > 0
EmitDone == total_observations.exists \/ reduced_observations.exists

\* C17: every ephemeris request but the last succeeded and each starts
\* where the one before ended; the observation request is made at most
\* once and only after the requests covered the interval, all with
\* success; the join is entered only after the observations were stored
\* and the confirmation asked; correct_dates only after a join that wrote
\* lines; reduce_magnitudes only after correct_dates wrote a line for each
\* joined line; the files are moved only after reduce_magnitudes returned.
C17_StagesInOrder ==
    /\ \A i \in 1..(Len(requests) - 1) :
          requests[i].ok /\ requests[i + 1].d = requests[i].d + requests[i].l
    /\ obs_requests <= 1
    /\ ObsIssued =>
          /\ success_down_ephem = 1
          /\ \A i \in 1..Len(requests) : requests[i].ok
          /\ DaysRequested(requests, Len(requests)) = span
    /\ (JoinEntered \/ pc \in {"combine", "combined"}) =>
          /\ ObsIssued
          /\ success_down_obs = 1
          /\ Asked("agree", prompts) = 1
    /\ NormalizeEntered =>
          /\ pc \notin {"combine", "combined"}
          /\ n_obs # 0
          /\ ~downloaded_ephem_data.exists /\ ~downloaded_obs_data.exists
    /\ ReduceEntered =>
          /\ ~Normalizing
          /\ line_no = n_obs + 1
    /\ EmitDone =>
          /\ pc = "input"
          /\ rm_line_no = n_obs + 1
          /\ ~modified_dates.exists

\* A run of two requests reached the end: both files are in their folders.
C17_Witness ==
    /\ pc = "input"
    /\ Len(requests) = 2
    /\ total_observations.exists
    /\ reduced_observations.exists

\* -------------------------------------------------- the second pass, C20

\* C20: when the three stages have ended for the second time on the same
\* two files, perihelion date and period, the files they leave, the three
\* counts and the way they ended are those of the first time.
C20_SecondPassSameOutput ==
    (pass = 2 /\ StagesEnded) => Output = first_out

\* The second pass has returned from reduce_magnitudes with a line kept and
\* a line discarded.
C20_Witness ==
    /\ pass = 2
    /\ pc = "rename"
    /\ n_obs_left >= 1
    /\ n_discarded_obs >= 1
    /\ Len(reduced_data.rows) = n_obs_left


\* ------------------------------------------------ the diagnostic, C21

\* An observation line of five fields or more has the date of more than one
\* ephemeris line.
SeveralMatches ==
    \E q1, q2 \in FiveFieldPairs : q1[1] = q2[1] /\ q1[2] # q2[2]

\* C21 as stated: when several ephemeris lines have the date of an
\* observation line, combine_data prints something besides its
\* announcement and its count, and writes one line for each pair.
C21_AmbiguityIsReported ==
    (CombineDone /\ SeveralMatches) =>
        /\ OneLinePerPair(FiveFieldPairs)
        /\ \E k \in 1..Len(combine_printed) :
              combine_printed[k] \notin
                  { printed_by_combine(n)[j] : n \in 0..Len(combined_data.rows), j \in 1..2 }


\* --------------------------------------------- the reversed interval, C22

\* The end date typed is earlier than the start date.
EndBeforeStart == pc # "input" /\ in_end < in_start

\* C22: with an end date earlier than the start date no ephemeris request
\* is made, download_ephem_for_period returns 0, and the run stops at the
\* test of that value without an observation request.
C22_ReversedIntervalAborts ==
    EndBeforeStart =>
        /\ requests = <<>>
        /\ success_down_ephem = 0
        /\ obs_requests = 0
        /\ pc \in {"ephem_loop", "ephem_return", "aborted"}

\* The run with an end date two days before the start date has stopped.
C22_Witness ==
    /\ pc = "aborted"
    /\ in_end = in_start - 2
    /\ requests = <<>>
    /\ obs_requests = 0


\* ------------------------------------------- the wrap on its interval, C23

\* The loops of correct_dates are running or have ended for the line read,
\* with a period above zero.
Wrapping ==
    /\ pc \in {"cd_wrap_lo", "cd_wrap_hi", "cd_write"}
    /\ ~perihelion_date.is_none
    /\ ~period.is_none
    /\ period.v > 0

\* The day difference of the line read, before the loops (in 1/Q days).
Unwrapped == DaysFromPerihelion(line_no) * Q

\* C23: for a period above zero, a day difference d with -period/2 <= d <=
\* period/2 passes both loops without an iteration and is written as it
\* is, the two ends included; and the value the loops end with is one they
\* leave as it is when run on it again.
C23_WrapKeepsValuesInside ==
    Wrapping =>
        /\ (-period.v <= 2 * Unwrapped /\ 2 * Unwrapped <= period.v) =>
              delta_days = Unwrapped /\ wraps = 0
        /\ pc = "cd_write" =>
              /\ wrap(delta_days, period.v) = delta_days
              /\ wrap(Unwrapped, period.v) = delta_days

\* A file of two lines, one day after and one day before the perihelion,
\* with a period of two days: the first was written as 1, the second has
\* passed the loops at the lower end of the interval.
C23_Witness ==
    /\ pc = "cd_write"
    /\ line_no = 2
    /\ period = Some(8)
    /\ modified_dates.rows[1].days = 1
    /\ delta_days = -4
    /\ wraps = 0


\* ------------------------------------------- lines without a filter, C24

\* Observation line i has the four fields year, month, day and magnitude.
LacksFilter(i) == Len(combine_in.obs[i].parts) = 1

\* C24: an observation line of four fields is in no pair that is joined,
\* whatever the dates of the ephemeris lines: the joined lines are those of
\* the pairs with five fields or more, each has a filter field after the
\* magnitude, and that field is neither empty nor the word 'blank'.
C24_NoJoinWithoutFilter ==
    CombineDone =>
        /\ Len(combined_data.rows) = Cardinality(FiveFieldPairs)
        /\ \A q \in FiveFieldPairs : ~LacksFilter(q[1])
        /\ \A k \in 1..Len(combined_data.rows) :
              /\ Len(combined_data.rows[k].parts) >= 2
              /\ combined_data.rows[k].parts[2] \notin {"", "blank"}

\* A line without a filter and a line with one, both of the date of the
\* one ephemeris line: one line was joined.
C24_Witness ==
    /\ CombineDone
    /\ Len(combine_in.obs) = 2
    /\ Len(combine_in.eph) = 1
    /\ LacksFilter(1) /\ ~LacksFilter(2)
    /\ combine_in.obs[1].date = combine_in.eph[1].date
    /\ combine_in.obs[2].date = combine_in.eph[1].date
    /\ Len(combined_data.rows) = 1


\* ------------------------------------------------- the empty join, C25

\* combine_data has returned the count 0.
JoinedNothing == combine_printed # <<>> /\ n_obs = 0

\* C25: after a join that wrote no line, correct_dates, reduce_magnitudes
\* and rename_and_move_files are not entered: the run goes from the test
\* of the count back to the question for the next object, with
\* combined_data.txt removed and no file in either folder, whatever the
\* perihelion date and the period are.
C25_EmptyJoinEndsRun ==
    JoinedNothing =>
        /\ pc \in {"combined", "input"}
        /\ ~NormalizeEntered
        /\ ~ReduceEntered
        /\ ~EmitDone
        /\ pc = "input" => ~combined_data.exists

\* The observations were stored, no line was joined, and the run is back
\* at the question for the next object with a perihelion date of None.
C25_Witness ==
    /\ pc = "input"
    /\ JoinedNothing
    /\ combine_in.obs # <<>>
    /\ perihelion_date.is_none
    /\ ~period.is_none
    /\ ~total_observations.exists

\* ------------------------------------------- the intermediate files, C26

\* C26: when a run that called combine_data is back at the question for
\* the next object, none of downloaded_ephem_data.txt,
\* downloaded_obs_data.txt, combined_data.txt, modified_dates.txt and
\* reduced_data.txt exists.
C26_NoIntermediateFileLeft ==
    (pc = "input" /\ combine_printed # <<>>) =>
        /\ ~downloaded_ephem_data.exists
        /\ ~downloaded_obs_data.exists
        /\ ~combined_data.exists
        /\ ~modified_dates.exists
        /\ ~reduced_data.exists

\* A run whose one joined line was discarded has ended: the total file is
\* in its folder, reduced_data.txt was removed and not moved.
C26_Witness ==
    /\ pc = "input"
    /\ n_obs = 1
    /\ n_discarded_obs = 1
    /\ n_obs_left = 0
    /\ total_observations.exists
    /\ ~reduced_observations.exists
    /\ ~reduced_data.exists

====
